---- MODULE Spec2Model ----
(***************************************************************************)
(* A model of the ThreadScribe WhatsApp bridge (whatsapp-bridge/main.go):  *)
(* the SQLite message store, the event handler that ingests messages, the  *)
(* REST handlers, and the pairing / reconnection logic around the          *)
(* whatsmeow client.                                                       *)
(*                                                                         *)
(* Time is counted in whole days.                                          *)
(***************************************************************************)
EXTENDS Integers, Sequences, FiniteSets, Bags, TLC

(***************************************************************************)
(* Bounds of the model.                                                    *)
(***************************************************************************)
\* Event timestamps range over 0..MaxTs.
MaxTs == 1
\* The clock starts at RetentionDays and advances at most MaxTicks days.
MaxTicks == 1
\* At most MaxGoroutines goroutines started by HTTP handlers are alive at once.
MaxGoroutines == 2
\* The network client emits at most MaxCodes pairing codes.
MaxCodes == 2

\* The clicks of the page's user.
MaxClicks == 1

\* The periodic connection checks in flight at once.
MaxChecks == 1

\* GetMessages: time.Now().AddDate(0, 0, -21)
RetentionDays == 21

(***************************************************************************)
(* JIDs (whatsmeow types.JID) and the values events carry.                 *)
(***************************************************************************)
GroupServer == "g.us"
BroadcastServer == "broadcast"
DefaultUserServer == "s.whatsapp.net"

GroupJID == [User |-> "123", Server |-> GroupServer]
UserJID == [User |-> "555", Server |-> DefaultUserServer]
BroadcastJID == [User |-> "status", Server |-> BroadcastServer]
JIDs == {GroupJID, UserJID, BroadcastJID}
\* The chats the modelled account receives messages in.
ChatJIDs == {GroupJID, UserJID}

\* types.JID.String()
JIDString(jid) == jid.User \o "@" \o jid.Server

\* types.ParseJID, on the strings JIDString gives.
ParseJID(str) == CHOOSE j \in JIDs : JIDString(j) = str

MessageIDs == {"A1", "B2"}
Conversations == {"", "hi"}
ExtendedTexts == {"", "yo"}
\* The push name of the sender, which every event of theirs carries.
PushNames == {"Al"}
Timestamps == 0..MaxTs

\* An *events.Message as far as the handler reads it, with the text of an
\* extended text message and the push name the event carries.
\* A message carries its text either as the conversation or as an extended
\* text message, never as both.
Events ==
    {e \in [ID : MessageIDs, Sender : {UserJID}, Conversation : Conversations,
            ExtendedText : ExtendedTexts, Timestamp : Timestamps,
            Chat : ChatJIDs,
            PushName : PushNames] :
        e.Conversation = "" \/ e.ExtendedText = ""}

\* Outcomes of client.GetGroupInfo and client.Store.Contacts.GetContact:
\* an error, or the name found ("" is a contact without a full name).
LookupErr == "<err>"
GroupLookups == {LookupErr, "Family"}
ContactLookups == {LookupErr, "", "Alice"}
NoInfo == "<nil>"

VARIABLES
    messages,       \* the messages table
    chats,          \* the chats table
    now,            \* the clock, in days
    mainPc,         \* where the process is: "start", "serving" or "exited"
    socket,         \* client.IsConnected()
    deviceID,       \* client.Store.ID != nil: a DeviceSession is stored
    qrFile,         \* the code held by qr.png, NoFile when there is no file
    isReconnecting, \* var isReconnecting bool
    tasks,          \* the goroutines around a QR channel
    codes,          \* the number of pairing codes emitted so far
    isConnected,    \* the page: useState isConnected
    isLoading,      \* the page: useState isLoading
    isLoggingOut,   \* the page: useState isLoggingOut
    isRefreshing,   \* the page: useState isRefreshing
    calls,          \* the page: its asynchronous functions in flight
    clicks          \* the page: the clicks so far

storeVars == <<messages, chats, now>>
clientVars == <<socket, deviceID, qrFile, isReconnecting, tasks, codes>>
sessionVars == <<mainPc, socket, deviceID, qrFile, isReconnecting, tasks, codes>>
pageVars == <<isConnected, isLoading, isLoggingOut, isRefreshing, calls, clicks>>
bridgeVars == <<messages, chats, now, mainPc, socket, deviceID, qrFile,
                isReconnecting, tasks, codes>>
vars == <<messages, chats, now, mainPc, socket, deviceID, qrFile,
          isReconnecting, tasks, codes, isConnected, isLoading, isLoggingOut,
          isRefreshing, calls, clicks>>

(***************************************************************************)
(* MessageStore                                                            *)
(***************************************************************************)
\* CREATE TABLE messages (id TEXT PRIMARY KEY, ...): the key of a row.
MessageKey(row) == row.id

\* CREATE TABLE chats (jid TEXT PRIMARY KEY, ...)
ChatKey(row) == row.jid

\* A plain INSERT with no primary key to conflict on: the row is added.
SaveMessage_Insert(tbl, msg) == Append(tbl, msg)

\* INSERT OR REPLACE: the rows in conflict with the new one are deleted, the
\* new row is inserted with a fresh rowid.
SaveMessage(tbl, msg) ==
    Append(SelectSeq(tbl, LAMBDA r : MessageKey(r) # MessageKey(msg)), msg)

\* The chats table is read only through GetChats, which loses the order of
\* its rows: it is kept as the set of its rows.
SaveChat(tbl, jid, name, t) ==
    LET row == [jid |-> jid, name |-> name, timestamp |-> t]
    IN  {r \in tbl : ChatKey(r) # ChatKey(row)} \cup {row}

\* ORDER BY timestamp ASC, rows of equal timestamp in rowid order.
RECURSIVE InsertAsc(_, _)
InsertAsc(sorted, row) ==
    IF sorted = <<>> THEN <<row>>
    ELSE IF sorted[Len(sorted)].timestamp <= row.timestamp
         THEN Append(sorted, row)
         ELSE Append(InsertAsc(SubSeq(sorted, 1, Len(sorted) - 1), row),
                     sorted[Len(sorted)])

\* No ORDER BY: the rows as the table holds them.
OrderByRowid(rows) == rows

RECURSIVE OrderByTimestampAsc(_)
OrderByTimestampAsc(rows) ==
    IF rows = <<>> THEN <<>>
    ELSE InsertAsc(OrderByTimestampAsc(SubSeq(rows, 1, Len(rows) - 1)),
                   rows[Len(rows)])

\* A window one day short.
ThreeWeeksAgo_OffByOne(t) == t - RetentionDays + 1

\* threeWeeksAgo := time.Now().AddDate(0, 0, -21)
ThreeWeeksAgo(t) == t - RetentionDays

\* The window's first day left out: timestamp > ?
InWindow_Strict(row, chatJID, t) ==
    row.chat_jid = chatJID /\ row.timestamp > ThreeWeeksAgo(t)

\* WHERE chat_jid = ? AND timestamp >= ?
InWindow(row, chatJID, t) ==
    row.chat_jid = chatJID /\ row.timestamp >= ThreeWeeksAgo(t)

GetMessages(tbl, chatJID, t) ==
    OrderByTimestampAsc(SelectSeq(tbl, LAMBDA r : InWindow(r, chatJID, t)))

\* The query deletes the rows of the chat that are out of the window.
AfterGetMessages_Purge(tbl, chatJID, t) ==
    SelectSeq(tbl, LAMBDA r : r.chat_jid # chatJID \/ InWindow(r, chatJID, t))

\* The messages table after GetMessages: its one statement is a SELECT.
AfterGetMessages(tbl, chatJID, t) == tbl

\* GetChats: the rows of SELECT ... ORDER BY timestamp DESC are put into a
\* map[string]time.Time, from jid to timestamp.
GetChats(tbl) ==
    [jid \in {r.jid : r \in tbl} |-> (CHOOSE r \in tbl : r.jid = jid).timestamp]

\* for jid, timestamp := range m: the orders in which the keys of a Go map
\* can come, which the language leaves unspecified (encoding/json writes
\* them sorted by key, one of these orders).
RangeOrders(m) ==
    {order \in [1..Cardinality(DOMAIN m) -> DOMAIN m] :
        \A i, j \in DOMAIN order : i # j => order[i] # order[j]}

(***************************************************************************)
(* GetChatName                                                             *)
(***************************************************************************)
GetChatName(jid, info, pushName, groupLookup, contactLookup) ==
    IF jid.Server = GroupServer
    THEN IF info # NoInfo THEN info
         ELSE IF groupLookup # LookupErr THEN groupLookup
         ELSE "Group " \o jid.User
    ELSE IF jid.Server = BroadcastServer THEN "Broadcast"
    ELSE IF pushName # "" THEN pushName
    ELSE IF contactLookup # LookupErr /\ contactLookup # "" THEN contactLookup
    ELSE "+" \o jid.User

\* The lookups GetChatName performs for a chat: a group-info lookup for a
\* group, a contact lookup for a user; the other one is not made.
GroupLookupsFor(jid) ==
    IF jid.Server = GroupServer THEN GroupLookups ELSE {LookupErr}

ContactLookupsFor(jid) ==
    IF jid.Server \notin {GroupServer, BroadcastServer}
    THEN ContactLookups ELSE {LookupErr}

(***************************************************************************)
(* HTTP responses                                                          *)
(***************************************************************************)
JsonType == "application/json"
TextType == "text/plain; charset=utf-8"

\* w.Header().Set("Content-Type", "application/json");
\* json.NewEncoder(w).Encode(body)
JsonResponse(body) ==
    [status |-> 200, contentType |-> JsonType, body |-> body]

\* http.Error(w, msg, code): it sets Content-Type to text/plain, whatever
\* the handler had set, and writes msg as the body.
HttpError(msg, code) ==
    [status |-> code, contentType |-> TextType, body |-> msg]

(***************************************************************************)
(* The event handler, case *events.Message                                 *)
(***************************************************************************)
\* msg := &Message{...}
MessageOf(e) ==
    [id |-> e.ID, sender |-> JIDString(e.Sender), content |-> e.Conversation,
     timestamp |-> e.Timestamp, chat_jid |-> JIDString(e.Chat),
     type |-> "text"]

\* chatName := GetChatName(client, messageStore, v.Info.Chat, ..., nil, "")
HandlerChatName(e, groupLookup, contactLookup) ==
    GetChatName(e.Chat, NoInfo, "", groupLookup, contactLookup)

\* log.Fatalf: the line is written and the process exits.
LogFatalf(pc) == "exited"

\* log.Printf: the line is written and the caller goes on.
LogPrintf(pc) == pc

\* saveErr, chatErr: the store write fails (the error is logged).
HandleMessage(e, groupLookup, contactLookup, saveErr, chatErr) ==
    /\ messages' = IF saveErr THEN messages
                   ELSE SaveMessage(messages, MessageOf(e))
    /\ chats' = IF chatErr THEN chats
                ELSE SaveChat(chats, JIDString(e.Chat),
                              HandlerChatName(e, groupLookup, contactLookup),
                              now)
    /\ mainPc' = IF saveErr \/ chatErr THEN LogPrintf(mainPc) ELSE mainPc
    /\ UNCHANGED now

\* The client calls the handler with the event e, while the process runs.
Deliver(e) ==
    /\ mainPc # "exited"
    /\ \E groupLookup \in GroupLookupsFor(e.Chat),
          contactLookup \in ContactLookupsFor(e.Chat),
          saveErr \in BOOLEAN, chatErr \in BOOLEAN :
         HandleMessage(e, groupLookup, contactLookup, saveErr, chatErr)

OnMessage == \E e \in Events : Deliver(e)

\* GET /api/messages?chatId=...: the status and the body of the response.
\* queryErr: the store read fails.
ApiMessages(chatID, queryErr) ==
    IF chatID = ""
    THEN HttpError("chatId parameter is required", 400)
    ELSE IF queryErr
    THEN HttpError("Failed to get messages", 500)
    ELSE JsonResponse(GetMessages(messages, chatID, now))

\* GET /api/chats: the status and the body of the response, a map from jid
\* to ChatInfo{Name, Timestamp} with the name GetChatName finds now.
ApiChats(queryErr, groupLookup, contactLookup) ==
    IF queryErr
    THEN HttpError("Failed to get chats", 500)
    ELSE LET m == GetChats(chats)
         IN  JsonResponse(
               [jid \in DOMAIN m |->
                  [Name |-> GetChatName(ParseJID(jid), NoInfo, "",
                                        groupLookup, contactLookup),
                   Timestamp |-> m[jid]]])

\* if r.Method != http.MethodPost { http.Error(...); return }
MethodNotAllowed == HttpError("Method not allowed", 405)

\* A day passes.
Tick ==
    /\ now < RetentionDays + MaxTicks
    /\ now' = now + 1
    /\ UNCHANGED <<messages, chats>>


(***************************************************************************)
(* The session: the whatsmeow client, qr.png and the goroutines that       *)
(* consume a QR channel.                                                   *)
(*                                                                         *)
(* The client is used through Connect, Disconnect, IsConnected,            *)
(* GetQRChannel and Store.Delete.  GetQRChannel returns no channel (and an *)
(* error the code drops) when the client is connected or a device identity *)
(* is stored; Connect fails when the client is already connected, or when  *)
(* the network does; Disconnect emits no event.                            *)
(***************************************************************************)
NoFile == 0
Methods == {"GET", "PUT", "POST", "OPTIONS"}

NoItem == [Event |-> "none", Code |-> 0]
CodeItem(k) == [Event |-> "code", Code |-> k]
SuccessItem == [Event |-> "success", Code |-> 0]
TimeoutItem == [Event |-> "timeout", Code |-> 0]

\* A QR channel: nil, open or closed, with the item it holds for its reader.
NilChan == [state |-> "nil", item |-> NoItem]
OpenChan == [state |-> "open", item |-> NoItem]

\* The goroutines are anonymous: tasks is the bag of the running ones, each
\* a record of what started it, where it is and the QR channel it holds.
\* "startup" is the QR goroutine of main; the others are started by the HTTP
\* handlers.
Goroutines == BagToSet(tasks)
HttpTasks == {t \in Goroutines : t.kind # "startup"}
NoTasks == EmptyBag

IsHttpTask(t) == t.kind # "startup"

\* The HTTP handlers can start another goroutine: fewer than MaxGoroutines
\* of theirs are running.
CanSpawn == CopiesIn(TRUE, BagOfAll(IsHttpTask, tasks)) < MaxGoroutines

\* go func() { ... }()
Spawn(kind, pc) ==
    tasks (+) SetToBag({[kind |-> kind, pc |-> pc, ch |-> NilChan]})

\* qrChan, _ := client.GetQRChannel(context.Background())
GetQRChannel == IF socket \/ deviceID THEN NilChan ELSE OpenChan

\* The results client.Connect() can have: TRUE is an error.
ConnectErrs == IF socket THEN {TRUE} ELSE BOOLEAN

(***************************************************************************)
(* main: the startup connect, and the process's exit                       *)
(***************************************************************************)
\* The process is gone: its goroutines, its connection and its globals.
Exit ==
    /\ mainPc' = "exited"
    /\ socket' = FALSE
    /\ isReconnecting' = FALSE
    /\ tasks' = NoTasks

\* main pairs at every start.
NeedsPairing_Always == TRUE

\* if client.Store.ID == nil
NeedsPairing == ~deviceID

\* if client.Store.ID == nil { GetQRChannel; Connect; go func() {...}() }
\* else { Connect }; a failed Connect returns from main.
Startup(connectErr) ==
    /\ mainPc = "start"
    /\ IF connectErr
       THEN Exit /\ UNCHANGED <<deviceID, qrFile, codes>>
       ELSE /\ mainPc' = "serving"
            /\ socket' = TRUE
            /\ tasks' = IF ~NeedsPairing THEN tasks
                        ELSE tasks (+) SetToBag({[kind |-> "startup",
                                                  pc |-> "loop",
                                                  ch |-> GetQRChannel]})
            /\ UNCHANGED <<deviceID, qrFile, isReconnecting, codes>>

\* start-bridge.sh: while true; do go run main.go; sleep 3; done
SupervisorRestart ==
    /\ mainPc = "exited"
    /\ mainPc' = "start"
    /\ UNCHANGED <<socket, deviceID, qrFile, isReconnecting, tasks, codes>>

(***************************************************************************)
(* corsMiddleware and the handlers that change the session                 *)
(***************************************************************************)
\* The middleware hands every request to the handler.
ShortCircuits_Never(method) == FALSE

\* if r.Method == "OPTIONS" { w.WriteHeader(http.StatusOK); return }
ShortCircuits(method) == method = "OPTIONS"

\* An OPTIONS request is answered by the middleware; next is not run.
CorsMiddleware(method, next) ==
    IF ShortCircuits(method) THEN UNCHANGED sessionVars ELSE next

\* The headers corsMiddleware sets before anything else.
CorsHeaders ==
    [AllowOrigin |-> "*", AllowMethods |-> "GET, POST, PUT, DELETE, OPTIONS",
     AllowCredentials |-> "true", MaxAge |-> "86400"]

\* w.WriteHeader(http.StatusOK), with no body and no Content-Type.
OptionsResponse == [status |-> 200, contentType |-> "", body |-> ""]

\* What a request gets from an endpoint whose handler would answer resp.
CorsResponse(method, resp) ==
    [headers |-> CorsHeaders,
     response |-> IF ShortCircuits(method) THEN OptionsResponse ELSE resp]

\* The handler serves every method.
MethodAllowed_Any(method) == TRUE

\* if r.Method != http.MethodPost { http.Error(...); return }
MethodAllowed(method) == method = "POST"

\* The response of a handler that starts with the method check and would
\* answer resp to a POST.
PostOnly(method, resp) ==
    IF ~MethodAllowed(method) THEN MethodNotAllowed ELSE resp

\* POST /api/logout.  deleteErr: client.Store.Delete fails (it is logged).
Logout(deleteErr) ==
    /\ CanSpawn
    /\ IF socket
       THEN /\ socket' = FALSE
            /\ deviceID' = IF deviceID /\ ~deleteErr THEN FALSE ELSE deviceID
            /\ qrFile' = NoFile
            /\ tasks' = Spawn("reconnect", "check")
       ELSE /\ qrFile' = NoFile
            /\ tasks' = Spawn("reconnect", "check")
            /\ UNCHANGED <<socket, deviceID>>
    /\ UNCHANGED <<mainPc, isReconnecting, codes>>

ApiLogout(method, deleteErr) ==
    /\ mainPc \in {"start", "serving"}
    /\ CorsMiddleware(method,
          IF ~MethodAllowed(method) THEN UNCHANGED sessionVars
          ELSE Logout(deleteErr))

\* POST /api/regenerate-qr, registered once main has connected.
RegenerateQR ==
    IF ~socket \/ ~deviceID
    THEN /\ CanSpawn
         /\ qrFile' = NoFile
         /\ tasks' = Spawn("regen", "getqr")
         /\ UNCHANGED <<mainPc, socket, deviceID, isReconnecting, codes>>
    ELSE UNCHANGED sessionVars

ApiRegenerateQR(method) ==
    /\ mainPc = "serving"
    /\ CorsMiddleware(method,
          IF ~MethodAllowed(method) THEN UNCHANGED sessionVars
          ELSE RegenerateQR)

\* POST /api/restart, registered once main has connected: the response is
\* written, then the goroutine is started.
Restart ==
    /\ CanSpawn
    /\ tasks' = Spawn("restart", "sleep")
    /\ UNCHANGED <<mainPc, socket, deviceID, qrFile, isReconnecting, codes>>

ApiRestart(method) ==
    /\ mainPc = "serving"
    /\ CorsMiddleware(method,
          IF ~MethodAllowed(method) THEN UNCHANGED sessionVars
          ELSE Restart)

\* The body POST /api/restart answers with.
RestartResponse ==
    JsonResponse([success |-> TRUE, message |-> "Bridge restart initiated"])

\* GET /api/qr: the data URL of qr.png if the file exists, an error object
\* if not, both with status 200.
ApiQR ==
    IF qrFile # NoFile
    THEN JsonResponse([qr |-> qrFile])
    ELSE JsonResponse([error |-> "QR code not available"])

\* GET /qr.png: http.ServeFile
QrPng ==
    IF qrFile # NoFile
    THEN [status |-> 200, contentType |-> "image/png", body |-> qrFile]
    ELSE HttpError("404 page not found", 404)

\* The identity of the paired device, client.Store.ID.String().
LocalJID == "999@s.whatsapp.net"

\* connected is the state of the socket, whether or not a device is paired.
ApiStatus_SocketOnly ==
    JsonResponse([connected |-> socket,
                  jid |-> IF deviceID THEN LocalJID ELSE ""])

\* GET /api/status
ApiStatus ==
    JsonResponse([connected |-> IF deviceID THEN socket ELSE FALSE,
                  jid |-> IF deviceID THEN LocalJID ELSE ""])

\* http.HandleFunc(path, corsMiddleware(handler)): what a request of the
\* method gets from each endpoint in the current state (/api/messages
\* without chatId, the store reads succeeding).
Endpoints ==
    {"/api/status", "/api/chats", "/api/messages", "/api/qr", "/qr.png",
     "/api/logout", "/api/regenerate-qr", "/api/restart"}
PostEndpoints == {"/api/logout", "/api/regenerate-qr", "/api/restart"}

\* The endpoints registered so far: the last two are registered once main
\* has connected.
Registered ==
    IF mainPc = "serving" THEN Endpoints
    ELSE IF mainPc = "start"
    THEN Endpoints \ {"/api/regenerate-qr", "/api/restart"}
    ELSE {}

Serve(path, method) ==
    CorsResponse(method,
      IF path = "/api/status" THEN ApiStatus
      ELSE IF path = "/api/chats" THEN ApiChats(FALSE, LookupErr, LookupErr)
      ELSE IF path = "/api/messages" THEN ApiMessages("", FALSE)
      ELSE IF path = "/api/qr" THEN ApiQR
      ELSE IF path = "/qr.png" THEN QrPng
      ELSE IF path = "/api/logout"
      THEN PostOnly(method, JsonResponse([success |-> TRUE]))
      ELSE IF path = "/api/regenerate-qr"
      THEN PostOnly(method, JsonResponse([success |-> ~socket \/ ~deviceID]))
      ELSE PostOnly(method, RestartResponse))

(***************************************************************************)
(* reconnectWhatsApp and the goroutines                                    *)
(***************************************************************************)
\* The goroutine t returns.
Finish(t) == tasks (-) SetToBag({t})
\* The goroutine t goes on as the record next.
Become(t, next) == Finish(t) (+) SetToBag({next})
Goto(t, pc) == Become(t, [t EXCEPT !.pc = pc])

\* The goroutine returns and the process goes on.
AfterSleep_Return(t) ==
    /\ tasks' = Finish(t)
    /\ UNCHANGED <<mainPc, socket, isReconnecting>>

\* os.Exit(0)
AfterSleep(t) == Exit

\* time.Sleep(1 * time.Second); os.Exit(0)
RestartExit(t) ==
    /\ t.kind = "restart" /\ t.pc = "sleep"
    /\ AfterSleep(t)
    /\ UNCHANGED <<deviceID, qrFile, codes>>

\* if isReconnecting { return }: the read of the flag.
ReconnectCheck(t) ==
    /\ t.kind = "reconnect" /\ t.pc = "check"
    /\ tasks' = IF isReconnecting THEN Finish(t) ELSE Goto(t, "set")
    /\ UNCHANGED <<mainPc, socket, deviceID, qrFile, isReconnecting, codes>>

\* isReconnecting = true: the write of the flag.
ReconnectSet(t) ==
    /\ t.kind = "reconnect" /\ t.pc = "set"
    /\ isReconnecting' = TRUE
    /\ tasks' = Goto(t, "isconn")
    /\ UNCHANGED <<mainPc, socket, deviceID, qrFile, codes>>

\* if !client.IsConnected() { ... } else { isReconnecting = false }
ReconnectIsConnected(t) ==
    /\ t.kind = "reconnect" /\ t.pc = "isconn"
    /\ IF ~socket
       THEN tasks' = Goto(t, "disconnect") /\ UNCHANGED isReconnecting
       ELSE tasks' = Finish(t) /\ isReconnecting' = FALSE
    /\ UNCHANGED <<mainPc, socket, deviceID, qrFile, codes>>

\* client.Disconnect()
ReconnectDisconnect(t) ==
    /\ t.kind = "reconnect" /\ t.pc = "disconnect"
    /\ socket' = FALSE
    /\ tasks' = Goto(t, "getqr")
    /\ UNCHANGED <<mainPc, deviceID, qrFile, isReconnecting, codes>>

\* qrChan, _ := client.GetQRChannel(...), in reconnectWhatsApp and in the
\* goroutine of /api/regenerate-qr.
TaskGetQRChannel(t) ==
    /\ t.kind \in {"reconnect", "regen"} /\ t.pc = "getqr"
    /\ tasks' = Become(t, [t EXCEPT !.pc = "connect", !.ch = GetQRChannel])
    /\ UNCHANGED <<mainPc, socket, deviceID, qrFile, isReconnecting, codes>>

\* The trigger asks for a QR channel and calls Connect again.
ConnectFailed_Retry(t) == Goto(t, "getqr")

\* if err != nil { log.Printf(...); return }
ConnectFailed(t) == Finish(t)

\* err := client.Connect(); on an error the trigger logs it and returns,
\* reconnectWhatsApp after resetting the flag.
TaskConnect(t, connectErr) ==
    /\ t.kind \in {"reconnect", "regen"} /\ t.pc = "connect"
    /\ IF connectErr
       THEN /\ tasks' = ConnectFailed(t)
            /\ isReconnecting' =
                 IF t.kind = "reconnect" THEN FALSE ELSE isReconnecting
            /\ UNCHANGED socket
       ELSE /\ tasks' = Goto(t, "loop")
            /\ socket' = TRUE
            /\ UNCHANGED isReconnecting
    /\ UNCHANGED <<mainPc, deviceID, qrFile, codes>>

\* Whether the goroutine of this kind leaves its loop after a "code" event:
\* main's goroutine goes on, the other two break.
BreaksAfterCode(kind) == kind # "startup"

\* What leaving the loop does: reconnectWhatsApp's goroutine resets the flag
\* (defer func() { isReconnecting = false }()).
FlagAfter(kind) == IF kind = "reconnect" THEN FALSE ELSE isReconnecting

\* for evt := range qrChan { ... }: one receive.  A receive from a nil
\* channel never returns; from an open, empty one it waits.
QRLoop(t) ==
    LET task == t
        item == task.ch.item
        drained == [task EXCEPT !.ch.item = NoItem]
    IN  /\ task.pc = "loop"
        /\ task.ch.state # "nil"
        /\ item # NoItem \/ task.ch.state = "closed"
        /\ IF item.Event = "code"
           THEN /\ qrFile' = item.Code
                /\ IF BreaksAfterCode(task.kind)
                   THEN tasks' = Finish(t)
                        /\ isReconnecting' = FlagAfter(task.kind)
                   ELSE tasks' = Become(t, drained)
                        /\ UNCHANGED isReconnecting
           ELSE IF item.Event = "success" \/ item = NoItem
           THEN /\ tasks' = Finish(t)
                /\ isReconnecting' = FlagAfter(task.kind)
                /\ UNCHANGED qrFile
           ELSE /\ tasks' = Become(t, drained)
                /\ UNCHANGED <<qrFile, isReconnecting>>
        /\ UNCHANGED <<mainPc, socket, deviceID, codes>>

(***************************************************************************)
(* The network client's side of a QR channel, and the network              *)
(***************************************************************************)
\* The client emits the next pairing code on a channel.
EmitCode(t) ==
    /\ t.pc = "loop"
    /\ t.ch = OpenChan
    /\ codes < MaxCodes
    /\ codes' = codes + 1
    /\ tasks' = Become(t, [t EXCEPT !.ch.item = CodeItem(codes + 1)])
    /\ UNCHANGED <<mainPc, socket, deviceID, qrFile, isReconnecting>>

\* A goroutine's channel once the pairing has succeeded.
Paired(t) ==
    IF t.ch.state = "open"
    THEN [t EXCEPT !.ch = [state |-> "closed", item |-> SuccessItem]]
    ELSE t

\* The phone scans a code: the device identity is stored, and every open
\* channel gets "success" and is closed.
PairSuccess ==
    /\ socket /\ ~deviceID /\ codes > 0
    /\ \E t \in Goroutines : t.pc = "loop" /\ t.ch.state = "open"
    /\ \A t \in Goroutines : t.ch.state = "open" => t.ch.item = NoItem
    /\ deviceID' = TRUE
    /\ tasks' = BagOfAll(Paired, tasks)
    /\ UNCHANGED <<mainPc, socket, qrFile, isReconnecting, codes>>

\* The codes of a channel run out: it gets "timeout", is closed, and the
\* client disconnects.
QRTimeout(t) ==
    /\ t.pc = "loop"
    /\ t.ch = OpenChan
    /\ tasks' = Become(t, [t EXCEPT !.ch = [state |-> "closed", item |-> TimeoutItem]])
    /\ socket' = FALSE
    /\ UNCHANGED <<mainPc, deviceID, qrFile, isReconnecting, codes>>

\* The connection is lost (*events.Disconnected: the handler logs it).
ConnectionLost ==
    /\ mainPc # "exited"
    /\ socket
    /\ socket' = FALSE
    /\ UNCHANGED <<mainPc, deviceID, qrFile, isReconnecting, tasks, codes>>

\* The types of event the client hands to the handler.
EventTypes == {"Message", "Connected", "Disconnected", "LoggedOut"}

\* switch v := evt.(type): the case that runs; there is no default, an event
\* of another type runs no case.
Classify(type) ==
    IF type = "Message" THEN "message"
    ELSE IF type = "Connected" THEN "connected"
    ELSE IF type = "Disconnected" THEN "disconnected"
    ELSE "other"

\* The phone removes the device (*events.LoggedOut).  The client closes the
\* connection and deletes its device store (deleteErr: that fails); the
\* handler runs the case Classify gives, and only the case of a message
\* changes anything.
LoggedOut(deleteErr) ==
    /\ mainPc # "exited"
    /\ socket /\ deviceID
    /\ Classify("LoggedOut") # "message"
    /\ socket' = FALSE
    /\ deviceID' = deleteErr
    /\ UNCHANGED <<mainPc, qrFile, isReconnecting, tasks, codes>>

(***************************************************************************)
(* The page (frontend/src/components/WhatsAppLivePage.tsx): the state of   *)
(* the component and its asynchronous functions in flight.                 *)
(*                                                                         *)
(* A function in flight is a call: the function, the request or timer it   *)
(* awaits, pollBridge's attempts, and the isConnected of the render that   *)
(* made it.  What runs between two awaits is one step.  The bridge answers *)
(* a request in any of the ways it can, or not at all (a network error).   *)
(***************************************************************************)
maxAttempts == 30

Call(fn, pc, seen) ==
    [fn |-> fn, pc |-> pc, attempts |-> 0, isConnected |-> seen]

Calls == BagToSet(calls)

NoCalls == EmptyBag

Start(c) == calls (+) SetToBag({c})

End(c) == calls (-) SetToBag({c})

Replace(c, d) == End(c) (+) SetToBag({d})

FnOf(c) == c.fn

InFlight(fn) == CopiesIn(fn, BagOfAll(FnOf, calls))

\* What GET /api/status tells checkConnection.
StatusResults == {"connected", "disconnected", "error"}

\* What POST /api/logout tells handleLogout.
LogoutResults == {"success", "failure", "error"}

\* What GET /api/status tells pollBridge: status 200, another 2xx, an error.
PollResults == {"200", "2xx", "error"}

\* checkConnection returns, to initialize (which then clears isLoading) or
\* to the interval.
Return(c) ==
    /\ calls' = End(c)
    /\ isLoading' = IF c.fn = "initialize" THEN FALSE ELSE isLoading

\* checkConnection, from the answer of GET /api/status on.
CheckConnection(c, result) ==
    /\ c.fn \in {"initialize", "periodic"}
    /\ c.pc = "status"
    /\ IF result = "error" THEN
           /\ isConnected' = FALSE
           /\ Return(c)
       ELSE IF (result = "connected") # c.isConnected THEN
           /\ isConnected' = (result = "connected")
           /\ calls' = Replace(c, [c EXCEPT !.pc = "fetch"])
           /\ UNCHANGED isLoading
       ELSE
           /\ Return(c)
           /\ UNCHANGED isConnected
    /\ UNCHANGED <<isLoggingOut, isRefreshing, clicks>>

\* checkConnection, from the answer to fetchChats or fetchQRCode on.
CheckFetched(c) ==
    /\ c.fn \in {"initialize", "periodic"}
    /\ c.pc = "fetch"
    /\ Return(c)
    /\ UNCHANGED <<isConnected, isLoggingOut, isRefreshing, clicks>>

\* The condition of the interval of the periodic connection check.
CheckAllowed == ~isLoggingOut /\ ~isRefreshing

\* The interval of the periodic connection check fires.
PeriodicCheck ==
    /\ CheckAllowed
    /\ InFlight("periodic") < MaxChecks
    /\ calls' = Start(Call("periodic", "status", isConnected))
    /\ UNCHANGED <<isConnected, isLoading, isLoggingOut, isRefreshing, clicks>>

\* The Disconnect button, shown when connected and enabled unless
\* isLoggingOut.
HandleLogout ==
    /\ isConnected /\ ~isLoading /\ ~isLoggingOut
    /\ clicks < MaxClicks
    /\ clicks' = clicks + 1
    /\ isLoggingOut' = TRUE
    /\ calls' = Start(Call("handleLogout", "logout", FALSE))
    /\ UNCHANGED <<isConnected, isLoading, isRefreshing>>

\* handleLogout, from the answer of POST /api/logout on: restartBridge is
\* entered on success.
LogoutResponded(c, result) ==
    /\ c.fn = "handleLogout"
    /\ c.pc = "logout"
    /\ IF result = "success" THEN
           /\ isConnected' = FALSE
           /\ calls' = Replace(c, [c EXCEPT !.pc = "restart"])
           /\ UNCHANGED isLoggingOut
       ELSE
           /\ isLoggingOut' = FALSE
           /\ calls' = End(c)
           /\ UNCHANGED isConnected
    /\ UNCHANGED <<isLoading, isRefreshing, clicks>>

\* restartBridge, from the answer of POST /api/restart on, and the finally
\* of handleLogout, which awaits it.
RestartBridge(c, ok) ==
    /\ c.fn = "handleLogout"
    /\ c.pc = "restart"
    /\ isRefreshing' = ok
    /\ calls' = IF ok THEN Replace(c, Call("pollBridge", "timer", FALSE))
                ELSE End(c)
    /\ isLoggingOut' = FALSE
    /\ UNCHANGED <<isConnected, isLoading, clicks>>

\* The timer of pollBridge fires: GET /api/status is sent.
PollTimer(c) ==
    /\ c.fn = "pollBridge"
    /\ c.pc = "timer"
    /\ calls' = Replace(c, [c EXCEPT !.pc = "status"])
    /\ UNCHANGED <<isConnected, isLoading, isLoggingOut, isRefreshing, clicks>>

MorePolls(attempts) == attempts < maxAttempts

AfterTimeout_Stuck(flag) == flag

\* setIsRefreshing(false) when the attempts are used up.
AfterTimeout(flag) == FALSE

\* pollBridge, from the answer of GET /api/status on.
PollBridge(c, result) ==
    /\ c.fn = "pollBridge"
    /\ c.pc = "status"
    /\ IF result = "200" THEN
           /\ isRefreshing' = FALSE
           /\ calls' = Replace(c, [c EXCEPT !.pc = "fetchQR"])
       ELSE IF MorePolls(c.attempts + 1) THEN
           /\ calls' = Replace(c, [c EXCEPT !.attempts = c.attempts + 1,
                                            !.pc = "timer"])
           /\ UNCHANGED isRefreshing
       ELSE
           /\ isRefreshing' = AfterTimeout(isRefreshing)
           /\ calls' = End(c)
    /\ UNCHANGED <<isConnected, isLoading, isLoggingOut, clicks>>

\* pollBridge, from the answer to fetchQRCode on.
PollFetched(c) ==
    /\ c.fn = "pollBridge"
    /\ c.pc = "fetchQR"
    /\ calls' = End(c)
    /\ UNCHANGED <<isConnected, isLoading, isLoggingOut, isRefreshing, clicks>>

\* The Refresh QR button, shown when not connected and enabled unless
\* isRefreshing.
HandleRefreshQR ==
    /\ ~isConnected /\ ~isLoading /\ ~isRefreshing
    /\ clicks < MaxClicks
    /\ clicks' = clicks + 1
    /\ isRefreshing' = TRUE
    /\ calls' = Start(Call("handleRefreshQR", "fetchQR", FALSE))
    /\ UNCHANGED <<isConnected, isLoading, isLoggingOut>>

\* handleRefreshQR, from the answer to fetchQRCode on.
RefreshFetched(c) ==
    /\ c.fn = "handleRefreshQR"
    /\ c.pc = "fetchQR"
    /\ isRefreshing' = FALSE
    /\ calls' = End(c)
    /\ UNCHANGED <<isConnected, isLoading, isLoggingOut, clicks>>

(***************************************************************************)
(* Specifications                                                          *)
(***************************************************************************)
StoreInit ==
    /\ messages = <<>>
    /\ chats = {}
    /\ now = RetentionDays

SessionInit ==
    /\ mainPc = "start"
    /\ socket = FALSE
    /\ deviceID = FALSE
    /\ qrFile = NoFile
    /\ isReconnecting = FALSE
    /\ tasks = NoTasks
    /\ codes = 0

PageInit ==
    /\ isConnected = FALSE
    /\ isLoading = TRUE
    /\ isLoggingOut = FALSE
    /\ isRefreshing = FALSE
    /\ calls = SetToBag({Call("initialize", "status", FALSE)})
    /\ clicks = 0

Init == StoreInit /\ SessionInit /\ PageInit

StoreNext ==
    \/ OnMessage /\ UNCHANGED <<clientVars, pageVars>>
    \/ Tick /\ UNCHANGED <<sessionVars, pageVars>>

SessionNext ==
    \/ (\E connectErr \in ConnectErrs : Startup(connectErr))
          /\ UNCHANGED <<storeVars, pageVars>>
    \/ SupervisorRestart /\ UNCHANGED <<storeVars, pageVars>>
    \/ (\E method \in Methods :
          \E deleteErr \in (IF socket /\ deviceID THEN BOOLEAN ELSE {FALSE}) :
            ApiLogout(method, deleteErr))
          /\ UNCHANGED <<storeVars, pageVars>>
    \/ (\E method \in Methods : ApiRegenerateQR(method))
          /\ UNCHANGED <<storeVars, pageVars>>
    \/ (\E method \in Methods : ApiRestart(method)) /\ UNCHANGED <<storeVars, pageVars>>
    \/ (\E t \in HttpTasks : RestartExit(t)) /\ UNCHANGED <<storeVars, pageVars>>
    \/ (\E t \in HttpTasks : ReconnectCheck(t)) /\ UNCHANGED <<storeVars, pageVars>>
    \/ (\E t \in HttpTasks : ReconnectSet(t)) /\ UNCHANGED <<storeVars, pageVars>>
    \/ (\E t \in HttpTasks : ReconnectIsConnected(t)) /\ UNCHANGED <<storeVars, pageVars>>
    \/ (\E t \in HttpTasks : ReconnectDisconnect(t)) /\ UNCHANGED <<storeVars, pageVars>>
    \/ (\E t \in HttpTasks : TaskGetQRChannel(t)) /\ UNCHANGED <<storeVars, pageVars>>
    \/ (\E t \in HttpTasks :
          \E connectErr \in ConnectErrs : TaskConnect(t, connectErr))
          /\ UNCHANGED <<storeVars, pageVars>>
    \/ (\E t \in Goroutines : QRLoop(t)) /\ UNCHANGED <<storeVars, pageVars>>
    \/ (\E t \in Goroutines : EmitCode(t)) /\ UNCHANGED <<storeVars, pageVars>>
    \/ (\E t \in Goroutines : QRTimeout(t)) /\ UNCHANGED <<storeVars, pageVars>>
    \/ PairSuccess /\ UNCHANGED <<storeVars, pageVars>>
    \/ ConnectionLost /\ UNCHANGED <<storeVars, pageVars>>
    \/ (\E deleteErr \in BOOLEAN : LoggedOut(deleteErr)) /\ UNCHANGED <<storeVars, pageVars>>

PageNext ==
    \/ (\E c \in Calls : \E result \in StatusResults :
          CheckConnection(c, result)) /\ UNCHANGED bridgeVars
    \/ (\E c \in Calls : CheckFetched(c)) /\ UNCHANGED bridgeVars
    \/ PeriodicCheck /\ UNCHANGED bridgeVars
    \/ HandleLogout /\ UNCHANGED bridgeVars
    \/ (\E c \in Calls : \E result \in LogoutResults :
          LogoutResponded(c, result)) /\ UNCHANGED bridgeVars
    \/ (\E c \in Calls : \E ok \in BOOLEAN : RestartBridge(c, ok))
          /\ UNCHANGED bridgeVars
    \/ (\E c \in Calls : PollTimer(c)) /\ UNCHANGED bridgeVars
    \/ (\E c \in Calls : \E result \in PollResults : PollBridge(c, result))
          /\ UNCHANGED bridgeVars
    \/ (\E c \in Calls : PollFetched(c)) /\ UNCHANGED bridgeVars
    \/ HandleRefreshQR /\ UNCHANGED bridgeVars
    \/ (\E c \in Calls : RefreshFetched(c)) /\ UNCHANGED bridgeVars

Next == StoreNext \/ SessionNext \/ PageNext

\* The store and the ingestion of messages.
StoreSpec == Init /\ [][StoreNext]_vars

\* The session: pairing, logout, reconnection.
SessionSpec == Init /\ [][SessionNext]_vars

\* The session with the scheduling the restart relies on: a goroutine that
\* sleeps wakes up, and the loop of start-bridge.sh goes on.
RestartSpec ==
    /\ SessionSpec
    /\ WF_vars((\E t \in HttpTasks : RestartExit(t)) /\ UNCHANGED <<storeVars, pageVars>>)
    /\ WF_vars(SupervisorRestart /\ UNCHANGED <<storeVars, pageVars>>)

\* The goroutines of reconnectWhatsApp.
Reconnects == {t \in Goroutines : t.kind = "reconnect"}

\* The session with the scheduling reconnectWhatsApp relies on: a goroutine
\* of it that can take its next step takes it, and an open QR channel it
\* reads delivers an event or is closed; and the scheduling of RestartSpec.
ReconnectSpec ==
    /\ RestartSpec
    /\ WF_vars((\E t \in Reconnects : ReconnectCheck(t)) /\ UNCHANGED <<storeVars, pageVars>>)
    /\ WF_vars((\E t \in Reconnects : ReconnectSet(t)) /\ UNCHANGED <<storeVars, pageVars>>)
    /\ WF_vars((\E t \in Reconnects : ReconnectIsConnected(t))
                 /\ UNCHANGED <<storeVars, pageVars>>)
    /\ WF_vars((\E t \in Reconnects : ReconnectDisconnect(t))
                 /\ UNCHANGED <<storeVars, pageVars>>)
    /\ WF_vars((\E t \in Reconnects : TaskGetQRChannel(t))
                 /\ UNCHANGED <<storeVars, pageVars>>)
    /\ WF_vars((\E t \in Reconnects :
                   \E connectErr \in ConnectErrs : TaskConnect(t, connectErr))
                 /\ UNCHANGED <<storeVars, pageVars>>)
    /\ WF_vars((\E t \in Reconnects : QRLoop(t)) /\ UNCHANGED <<storeVars, pageVars>>)
    /\ WF_vars((\E t \in Reconnects : QRTimeout(t)) /\ UNCHANGED <<storeVars, pageVars>>)

\* The page, with the scheduling it relies on: a request is answered or
\* fails, and a timer fires.
PageSpec ==
    /\ Init /\ [][PageNext]_vars
    /\ WF_vars((\E c \in Calls : \E result \in StatusResults :
                   c.fn = "initialize" /\ CheckConnection(c, result))
                 /\ UNCHANGED bridgeVars)
    /\ WF_vars((\E c \in Calls : \E result \in StatusResults :
                   c.fn = "periodic" /\ CheckConnection(c, result))
                 /\ UNCHANGED bridgeVars)
    /\ WF_vars((\E c \in Calls : c.fn = "initialize" /\ CheckFetched(c))
                 /\ UNCHANGED bridgeVars)
    /\ WF_vars((\E c \in Calls : c.fn = "periodic" /\ CheckFetched(c))
                 /\ UNCHANGED bridgeVars)
    /\ WF_vars(PeriodicCheck /\ UNCHANGED bridgeVars)
    /\ WF_vars((\E c \in Calls : \E result \in LogoutResults :
                   LogoutResponded(c, result)) /\ UNCHANGED bridgeVars)
    /\ WF_vars((\E c \in Calls : \E ok \in BOOLEAN : RestartBridge(c, ok))
                 /\ UNCHANGED bridgeVars)
    /\ WF_vars((\E c \in Calls : PollTimer(c)) /\ UNCHANGED bridgeVars)
    /\ WF_vars((\E c \in Calls : \E result \in PollResults :
                   PollBridge(c, result)) /\ UNCHANGED bridgeVars)
    /\ WF_vars((\E c \in Calls : PollFetched(c)) /\ UNCHANGED bridgeVars)
    /\ WF_vars((\E c \in Calls : RefreshFetched(c)) /\ UNCHANGED bridgeVars)

Spec == Init /\ [][Next]_vars

(***************************************************************************)
(* Properties of the store and of ingestion                                *)
(***************************************************************************)
Rows(tbl) == {tbl[i] : i \in 1..Len(tbl)}

\* The rows SaveMessage can be handed.
MessageRows ==
    [id : MessageIDs, sender : {JIDString(UserJID)}, content : Conversations,
     timestamp : Timestamps, chat_jid : {JIDString(j) : j \in ChatJIDs},
     type : {"text"}]

\* C2: in every state of the store and for every message m, saving m twice
\* in a row leaves the messages table as saving it once does: the same rows
\* in the same order, none of them twice.
C2_IdempotentUpsert ==
    \A m \in MessageRows :
        SaveMessage(SaveMessage(messages, m), m) = SaveMessage(messages, m)

\* A message has just been saved over an older row of the same id, beside
\* another row: saving it again changes nothing.
C2_Witness ==
    /\ Len(messages) = 2
    /\ messages[1].id # messages[2].id
    /\ messages[2].content = "hi"
    /\ SaveMessage(messages, messages[2]) = messages

\* C3: a message is keyed by (id, chat): saving a message whose id is that of
\* a stored row of another chat keeps the stored row.
C3_KeyedByIdAndChat ==
    [][\A e \in Events :
         \A groupLookup \in GroupLookupsFor(e.Chat),
            contactLookup \in ContactLookupsFor(e.Chat) :
           HandleMessage(e, groupLookup, contactLookup, FALSE, FALSE)
           => \A r \in Rows(messages) :
                (r.id = e.ID /\ r.chat_jid # JIDString(e.Chat))
                => r \in Rows(messages')]_vars

\* The entries of a response to GET /api/messages that carry the id.
Entries(resp, id) == {i \in 1..Len(resp.body) : resp.body[i].id = id}

\* The handler has stored the event's message, and no later event of the
\* same id has replaced it.
Stored(e) ==
    \E r \in Rows(messages) :
      /\ r.id = e.ID /\ r.chat_jid = JIDString(e.Chat)
      /\ r.content = e.Conversation /\ r.timestamp = e.Timestamp

C5_RetentionBoundary ==
    \A j \in ChatJIDs :
      LET got == Rows(GetMessages(messages, JIDString(j), now))
      IN  /\ \A r \in got : r.timestamp >= now - RetentionDays
          /\ \A r \in Rows(messages) :
               (r.chat_jid = JIDString(j) /\ r.timestamp >= now - RetentionDays)
               => r \in got

\* A chat holds a message exactly 21 days old, which is returned, and one
\* older than that, which is not.
C5_Witness ==
    \E j \in ChatJIDs :
      LET got == Rows(GetMessages(messages, JIDString(j), now))
      IN  /\ \E r \in got : r.timestamp = now - RetentionDays
          /\ \E r \in Rows(messages) :
               r.chat_jid = JIDString(j) /\ r.timestamp < now - RetentionDays
                 /\ r \notin got

\* The names GetChatName falls back to: "Group <user>" and "+<user>".
IsFallbackName(row) ==
    \/ row.name = "Group " \o ParseJID(row.jid).User
    \/ row.name = "+" \o ParseJID(row.jid).User
    \/ row.name = ""

\* C6: a stored chat name that is no fallback is never replaced by a fallback
\* or empty name.
C6_NameNotDowngraded ==
    [][\A old \in chats : \A new \in chats' :
         (old.jid = new.jid /\ ~IsFallbackName(old)) => ~IsFallbackName(new)]_vars

\* The name the waterfall of the specification resolves: the group-info name,
\* else the push name, else the contact's full name, else the fallback.
WaterfallName(jid, groupLookup, pushName, contactLookup) ==
    IF groupLookup # LookupErr THEN groupLookup
    ELSE IF pushName # "" THEN pushName
    ELSE IF contactLookup \notin {LookupErr, ""} THEN contactLookup
    ELSE IF jid.Server = GroupServer THEN "Group " \o jid.User
    ELSE "+" \o jid.User

\* C7: the chat name the handler stores for an event is the group-info name
\* when there is one, else the event's push name, else the contact's full
\* name, else the fallback derived from the phone number.
C7_WaterfallPrecedence ==
    [][\A e \in Events :
         \A groupLookup \in GroupLookupsFor(e.Chat),
            contactLookup \in ContactLookupsFor(e.Chat) :
           HandleMessage(e, groupLookup, contactLookup, FALSE, FALSE)
           => \E row \in chats' :
                /\ row.jid = JIDString(e.Chat)
                /\ row.name = WaterfallName(e.Chat, groupLookup, e.PushName,
                                            contactLookup)]_vars

\* C11: an event with empty text and no media leaves the messages table as it
\* was: ingestion writes no row for it.
C11_EmptySkipped ==
    [][\A e \in Events :
         \A groupLookup \in GroupLookupsFor(e.Chat),
            contactLookup \in ContactLookupsFor(e.Chat), chatErr \in BOOLEAN :
           (/\ e.Conversation = "" /\ e.ExtendedText = ""
            /\ HandleMessage(e, groupLookup, contactLookup, FALSE, chatErr))
           => messages' = messages]_vars

\* C12: a row of the messages table stays in it, with the sender, content,
\* timestamp and chat it was written with, whatever is ingested afterwards.
C12_StoredImmutable == [][Rows(messages) \subseteq Rows(messages')]_vars

\* C13: in whatever order the result of GetChats is read, the chats come in
\* descending order of their timestamps.
C13_ChatsDescending ==
    LET m == GetChats(chats)
    IN  \A order \in RangeOrders(m) :
          \A i, j \in DOMAIN order : i < j => m[order[i]] >= m[order[j]]

\* C14: in every state of the store and for every chat, GetMessages returns
\* stored rows of that chat only, in non-decreasing order of timestamp.
C14_OrderedIsolated ==
    \A chat \in {JIDString(jid) : jid \in ChatJIDs} :
        LET res == GetMessages(messages, chat, now)
        IN  /\ \A i \in DOMAIN res :
                 res[i] \in Rows(messages) /\ res[i].chat_jid = chat
            /\ \A i, j \in DOMAIN res :
                 i < j => res[i].timestamp <= res[j].timestamp

\* Two messages of one chat were stored the later one first, and both are
\* returned.
C14_Witness ==
    /\ Len(messages) = 2
    /\ messages[1].chat_jid = messages[2].chat_jid
    /\ messages[1].timestamp > messages[2].timestamp
    /\ Len(GetMessages(messages, messages[1].chat_jid, now)) = 2

\* C16: every response of a gateway handler with a status of 400 or more
\* (no chatId, a failed store read, a wrong method) has Content-Type
\* application/json.
C16_JsonErrors ==
    /\ \A chatID \in {""} \cup {JIDString(jid) : jid \in ChatJIDs},
          queryErr \in BOOLEAN :
         ApiMessages(chatID, queryErr).status >= 400
         => ApiMessages(chatID, queryErr).contentType = JsonType
    /\ \A queryErr \in BOOLEAN :
         ApiChats(queryErr, LookupErr, LookupErr).status >= 400
         => ApiChats(queryErr, LookupErr, LookupErr).contentType = JsonType
    /\ MethodNotAllowed.status >= 400
       => MethodNotAllowed.contentType = JsonType

\* C17: whatever store writes have failed so far, the process is running and
\* the handler is called for every event that comes next.
C17_IngestionSurvives ==
    /\ mainPc # "exited"
    /\ \A e \in Events : ENABLED Deliver(e)

\* Two events have been handled and SaveChat failed for both: the second was
\* processed after the first one's failure.
C17_Witness == Len(messages) = 2 /\ chats = {}

\* C24: in every state of the store and for every chat, GetMessages leaves
\* the messages table as it is, and a row of the chat older than the window
\* is not in the result and is in the table after two calls.
C24_ExcludedNotDeleted ==
    \A chat \in {JIDString(jid) : jid \in ChatJIDs} :
        LET once == AfterGetMessages(messages, chat, now)
            twice == AfterGetMessages(once, chat, now)
        IN  /\ once = messages
            /\ \A r \in Rows(messages) :
                 (r.chat_jid = chat /\ r.timestamp < ThreeWeeksAgo(now))
                 => /\ r \notin Rows(GetMessages(messages, chat, now))
                    /\ r \in Rows(twice)

\* A stored message is older than the window.
C24_Witness ==
    \E r \in Rows(messages) :
        /\ r.timestamp < ThreeWeeksAgo(now)
        /\ r \notin Rows(GetMessages(messages, r.chat_jid, now))

\* The text of a message: the conversation text, or else the text of the
\* extended text message.
TextOf(e) == IF e.Conversation # "" THEN e.Conversation ELSE e.ExtendedText

\* C25: the row written for an event has as content the text of the event:
\* a message whose text is an extended text is stored with that text.
C25_TextExtraction ==
    [][\A e \in Events :
         \A groupLookup \in GroupLookupsFor(e.Chat),
            contactLookup \in ContactLookupsFor(e.Chat), chatErr \in BOOLEAN :
           HandleMessage(e, groupLookup, contactLookup, FALSE, chatErr)
           => \E r \in Rows(messages') : r.id = e.ID /\ r.content = TextOf(e)]_vars

\* C28: in every state of the store, each row of the messages table has a
\* row in the chats table whose jid is the message's chat_jid.
C28_MessageHasChat ==
    \A r \in Rows(messages) : \E c \in chats : c.jid = r.chat_jid

(***************************************************************************)
(* Properties of the session                                               *)
(***************************************************************************)
\* The reconnectWhatsApp invocations that are performing the pairing cycle:
\* Disconnect, GetQRChannel, Connect, the QR goroutine.
InPairingCycle(t) ==
    /\ t.kind = "reconnect"
    /\ t.pc \in {"disconnect", "getqr", "connect", "loop"}

\* C1: of the reconnectWhatsApp invocations that overlap while the client is
\* not connected, at most one performs the pairing cycle; the others return
\* at the isReconnecting guard.
C1_SingleFlight == CopiesIn(TRUE, BagOfAll(InPairingCycle, tasks)) <= 1

\* C8: after a POST /api/logout has been handled, whatever the session state
\* was, the connection is down, no device identity is stored, qr.png is gone
\* and a reconnectWhatsApp goroutine has been started.
C8_LogoutEffect ==
    [][ApiLogout("POST", FALSE)
       => /\ ~socket'
          /\ ~deviceID'
          /\ qrFile' = NoFile
          /\ tasks' = Spawn("reconnect", "check")]_vars

\* A reconnectWhatsApp invocation is in progress from the moment it has
\* passed the guard until it, or its QR goroutine, has finished.
InProgress(u) ==
    /\ u.kind = "reconnect"
    /\ u.pc \in {"set", "isconn", "disconnect", "getqr", "connect", "loop"}

\* C9: an invocation of reconnectWhatsApp that starts while another one is in
\* progress returns at once: it changes neither the connection nor qr.png nor
\* the flag, and nothing is left of it.
C9_ReentrantNoOp ==
    [][\A t \in HttpTasks :
         (ReconnectCheck(t) /\ \E u \in HttpTasks : InProgress(u))
         => /\ tasks' = Finish(t)
            /\ UNCHANGED <<mainPc, socket, deviceID, qrFile, isReconnecting,
                           codes>>]_vars

\* The pairing attempts in flight: the goroutines reading an open QR channel
\* after a successful Connect, whichever trigger started them.
AttemptInFlight(t) == t.pc = "loop" /\ t.ch.state = "open"

\* C10: whatever triggers race (the startup pairing, a logout's
\* reconnectWhatsApp, POST /api/regenerate-qr), at most one pairing attempt
\* is in flight.
C10_OneAttemptInFlight ==
    CopiesIn(TRUE, BagOfAll(AttemptInFlight, tasks)) <= 1

\* C15: in every state of a running bridge GET /api/status answers 200 with
\* a status object, and connected is true only when a device identity is
\* stored (jid is not empty) and the socket is connected; with no identity
\* stored it is false, whatever the socket.
C15_StatusTolerant ==
    mainPc # "exited" =>
        /\ ApiStatus.status = 200
        /\ ApiStatus.contentType = JsonType
        /\ ApiStatus.body.connected => (deviceID /\ socket /\ ApiStatus.body.jid # "")
        /\ ~deviceID => ~ApiStatus.body.connected

\* Pairing is under way over a connected socket, and the status says
\* connected: false.
C15_Witness ==
    /\ mainPc = "serving"
    /\ socket /\ ~deviceID
    /\ \E t \in Goroutines : t.pc = "loop" /\ t.ch.state = "open"
    /\ ~ApiStatus.body.connected

\* C18: a Connect() that fails ends its trigger: the goroutine of
\* reconnectWhatsApp or of /api/regenerate-qr returns and is gone, and main
\* returns, the process exits and no goroutine of it is left; none of them
\* calls Connect() again.
C18_NoConnectRetry ==
    [][/\ \A t \in HttpTasks : TaskConnect(t, TRUE) => tasks' = Finish(t)
       /\ Startup(TRUE) => (mainPc' = "exited" /\ tasks' = NoTasks)]_vars

\* The Connect() of main has failed: the process has exited and nothing of
\* it is left to call Connect().
C18_Witness == mainPc = "exited" /\ tasks = NoTasks /\ ~socket

\* C19: when main has connected, its QR goroutine has been started on a QR
\* channel if no device identity was stored, and nothing has been started if
\* one was; qr.png is as it was.  The QR goroutine of main renders every code
\* it receives to qr.png and goes on reading.
C19_StartupBranch ==
    [][/\ Startup(FALSE) =>
            /\ qrFile' = qrFile
            /\ IF deviceID THEN tasks' = tasks
               ELSE tasks' = tasks (+) SetToBag({[kind |-> "startup",
                                                  pc |-> "loop",
                                                  ch |-> OpenChan]})
       /\ \A t \in Goroutines :
            (t.kind = "startup" /\ t.ch.item.Event = "code" /\ QRLoop(t))
            => /\ qrFile' = t.ch.item.Code
               /\ tasks' = Become(t, [t EXCEPT !.ch.item = NoItem])]_vars

\* main started without a device identity, and its QR goroutine, the only
\* goroutine there is, has rendered the latest code and reads on.
C19_Witness ==
    /\ mainPc = "serving" /\ ~deviceID
    /\ tasks = SetToBag({[kind |-> "startup", pc |-> "loop", ch |-> OpenChan]})
    /\ codes = 2 /\ qrFile = codes

\* C20: in every pairing cycle, the goroutine that receives a pairing code
\* writes it to qr.png and goes on reading its QR channel, so that the code
\* the client emits next replaces it.
C20_QRRefresh ==
    [][\A t \in Goroutines :
         (t.ch.item.Event = "code" /\ QRLoop(t))
         => /\ qrFile' = t.ch.item.Code
            /\ tasks' = Become(t, [t EXCEPT !.ch.item = NoItem])]_vars

\* C21: when the client delivers a logged-out event to a connected, paired
\* session, the handler runs a case for logged-out events, and after it no
\* device identity is stored: the session is unpaired again.
C21_LoggedOutTransition ==
    [][\A deleteErr \in BOOLEAN :
         LoggedOut(deleteErr)
         => /\ Classify("LoggedOut") = "logged-out"
            /\ ~deviceID']_vars

\* A restart is pending: its goroutine sleeps.
RestartPending == \E t \in Goroutines : t.kind = "restart"

\* C22: a POST /api/restart is answered with success: true and a message
\* while the process still runs, and its goroutine is started; a process
\* with a restart pending eventually exits; after every exit a new process
\* is eventually started.
C22_Restart ==
    /\ [][ApiRestart("POST")
          => /\ RestartResponse.status = 200
             /\ RestartResponse.body.success
             /\ mainPc' = "serving"
             /\ tasks' = Spawn("restart", "sleep")]_vars
    /\ RestartPending ~> (mainPc = "exited")
    /\ (mainPc = "exited") ~> (mainPc = "start")

\* POST /api/restart has been answered, and the process still runs.
C22_Witness == mainPc = "serving" /\ RestartPending

\* C23: an OPTIONS request to a registered endpoint is answered by the
\* middleware with the CORS headers and status 200 and nothing of the
\* handler's, and handling an OPTIONS request to /api/logout,
\* /api/regenerate-qr or /api/restart changes nothing.
C23_OptionsShortCircuit ==
    /\ [](\A path \in Registered :
            /\ Serve(path, "OPTIONS").headers = CorsHeaders
            /\ Serve(path, "OPTIONS").response.status = 200
            /\ Serve(path, "OPTIONS").response.contentType = "")
    /\ [][(\/ \E deleteErr \in BOOLEAN : ApiLogout("OPTIONS", deleteErr)
           \/ ApiRegenerateQR("OPTIONS")
           \/ ApiRestart("OPTIONS"))
          => UNCHANGED vars]_vars

\* The session is paired and connected, where a POST to /api/logout would
\* disconnect it, and an OPTIONS request to it is answered 200.
C23_Witness ==
    /\ mainPc = "serving" /\ socket /\ deviceID
    /\ Serve("/api/logout", "OPTIONS").response.status = 200

\* C26: whenever isReconnecting is true it is eventually false again.
C26_FlagReset == isReconnecting ~> ~isReconnecting

\* C27: in every state in which GET /api/status reports connected: true,
\* GET /api/qr answers with the error object, not with a QR code.
C27_NoQRWhenPaired ==
    (mainPc # "exited" /\ ApiStatus.body.connected)
    => "error" \in DOMAIN ApiQR.body

\* C29: a request to /api/logout, /api/regenerate-qr or /api/restart with a
\* method that is neither POST nor OPTIONS is answered 405, and handling it
\* changes nothing: the connection, the device identity, qr.png, the
\* goroutines and the process are as they were.
C29_MethodGuard ==
    /\ [](\A path \in Registered \cap PostEndpoints :
            \A method \in Methods \ {"POST", "OPTIONS"} :
              Serve(path, method).response.status = 405)
    /\ [][\A method \in Methods \ {"POST", "OPTIONS"} :
            (\/ \E deleteErr \in BOOLEAN : ApiLogout(method, deleteErr)
             \/ ApiRegenerateQR(method)
             \/ ApiRestart(method))
            => UNCHANGED vars]_vars

\* The session is paired and connected and qr.png exists, where a POST to
\* /api/logout would disconnect, delete the identity and remove the file,
\* and a GET to it is answered 405.
C29_Witness ==
    /\ mainPc = "serving" /\ socket /\ deviceID /\ qrFile # NoFile
    /\ Serve("/api/logout", "GET").response.status = 405


(***************************************************************************)
(* Properties of the page                                                  *)
(***************************************************************************)
\* The polls of GET /api/status a pollBridge has sent so far.
PollsSent(c) == IF c.pc = "timer" THEN c.attempts ELSE c.attempts + 1

PollChains == {c \in Calls : c.fn = "pollBridge" /\ c.pc \in {"timer", "status"}}

\* C30: once restartBridge has set isRefreshing, its status poll is sent at
\* most 30 times, and whatever the answers (the restart request fails, a
\* poll succeeds, all the polls fail) isRefreshing is set back to false and
\* the condition of the periodic connection check holds again.
C30_PollingTerminates ==
    /\ [](\A c \in PollChains : PollsSent(c) <= maxAttempts)
    /\ (isRefreshing ~> ~isRefreshing)
    /\ (isRefreshing ~> CheckAllowed)

\* C30 (witness): the 30th poll of a restartBridge is in flight, with
\* isRefreshing still set.
C30_Witness ==
    /\ isRefreshing
    /\ \E c \in PollChains : c.pc = "status" /\ PollsSent(c) = maxAttempts

====
